---- MODULE Spec2Model ----
(***************************************************************************)
(* Red Rocks scenic-loop route analysis.                                   *)
(*                                                                         *)
(*   analyze_scenic_loop_path.py   path projection, route ordering, area   *)
(*                                 aggregation, report and CSV output      *)
(*   create_area_summary_scenic.py rating parsing, scoring, area summary   *)
(*                                                                         *)
(* Coordinates are integers in units of 0.0001 degree, the resolution of   *)
(* the hard-coded waypoint table.  The Python floats are modelled by exact *)
(* rational arithmetic; products exceed 32 bits, so rationals are carried  *)
(* on arbitrary-precision integers (the Big and Mag operators).            *)
(***************************************************************************)
EXTENDS Integers, Sequences, FiniteSets, TLC

(***************************************************************************)
(* Exact integer arithmetic standing for the float operators + - * and the *)
(* comparisons of the source.  A magnitude is a little-endian sequence of  *)
(* base-10000 digits without leading zero digits; << >> is zero.           *)
(***************************************************************************)
Abs(x) == IF x < 0 THEN -x ELSE x

RECURSIVE Gcd(_, _)
Gcd(a, b) == IF b = 0 THEN a ELSE Gcd(b, a % b)

RECURSIVE MagOfNat(_)
MagOfNat(n) == IF n = 0 THEN << >> ELSE <<n % 10000>> \o MagOfNat(n \div 10000)

RECURSIVE MagAddC(_, _, _)
MagAddC(a, b, c) ==
    IF a = << >> /\ b = << >>
    THEN IF c = 0 THEN << >> ELSE <<c>>
    ELSE LET x == IF a = << >> THEN 0 ELSE Head(a)
             y == IF b = << >> THEN 0 ELSE Head(b)
             s == x + y + c
         IN  <<s % 10000>> \o MagAddC(IF a = << >> THEN a ELSE Tail(a),
                                      IF b = << >> THEN b ELSE Tail(b),
                                      s \div 10000)

MagAdd(a, b) == MagAddC(a, b, 0)

RECURSIVE MagTrim(_)
MagTrim(a) ==
    IF a = << >> THEN a
    ELSE IF a[Len(a)] = 0 THEN MagTrim(SubSeq(a, 1, Len(a) - 1)) ELSE a

\* a - b for a >= b, digit by digit with borrow
RECURSIVE MagSubB(_, _, _)
MagSubB(a, b, br) ==
    IF a = << >> THEN << >>
    ELSE LET y == IF b = << >> THEN 0 ELSE Head(b)
             s == Head(a) - y - br
         IN  <<IF s < 0 THEN s + 10000 ELSE s>>
               \o MagSubB(Tail(a), IF b = << >> THEN b ELSE Tail(b),
                          IF s < 0 THEN 1 ELSE 0)

MagSub(a, b) == MagTrim(MagSubB(a, b, 0))

RECURSIVE MagMulDigit(_, _, _)
MagMulDigit(a, k, c) ==
    IF a = << >> THEN IF c = 0 THEN << >> ELSE <<c>>
    ELSE LET s == Head(a) * k + c
         IN  <<s % 10000>> \o MagMulDigit(Tail(a), k, s \div 10000)

RECURSIVE MagMul(_, _)
MagMul(a, b) ==
    IF a = << >> \/ b = << >> THEN << >>
    ELSE LET rest == MagMul(a, Tail(b))
         IN  MagAdd(IF Head(b) = 0 THEN << >> ELSE MagMulDigit(a, Head(b), 0),
                    IF rest = << >> THEN << >> ELSE <<0>> \o rest)

\* -1, 0, 1 as a < b, a = b, a > b
RECURSIVE MagCmpFrom(_, _, _)
MagCmpFrom(a, b, i) ==
    IF i = 0 THEN 0
    ELSE IF a[i] < b[i] THEN -1
    ELSE IF a[i] > b[i] THEN 1
    ELSE MagCmpFrom(a, b, i - 1)

MagCmp(a, b) ==
    IF Len(a) < Len(b) THEN -1
    ELSE IF Len(a) > Len(b) THEN 1
    ELSE MagCmpFrom(a, b, Len(a))

\* signed integers: [neg, mag], zero is never negative
BigOfInt(n) == [neg |-> n < 0, mag |-> MagOfNat(Abs(n))]

BigZero == BigOfInt(0)

BigNeg(a) == [neg |-> (a.mag # << >>) /\ ~a.neg, mag |-> a.mag]

BigAdd(a, b) ==
    IF a.neg = b.neg THEN [neg |-> a.neg, mag |-> MagAdd(a.mag, b.mag)]
    ELSE LET c == MagCmp(a.mag, b.mag)
         IN  IF c = 0 THEN BigZero
             ELSE IF c > 0 THEN [neg |-> a.neg, mag |-> MagSub(a.mag, b.mag)]
             ELSE [neg |-> b.neg, mag |-> MagSub(b.mag, a.mag)]

BigSub(a, b) == BigAdd(a, BigNeg(b))

BigMul(a, b) ==
    LET m == MagMul(a.mag, b.mag)
    IN  [neg |-> (m # << >>) /\ (a.neg # b.neg), mag |-> m]

BigCmp(a, b) ==
    IF a.neg /\ ~b.neg THEN -1
    ELSE IF ~a.neg /\ b.neg THEN 1
    ELSE IF a.neg THEN MagCmp(b.mag, a.mag)
    ELSE MagCmp(a.mag, b.mag)

BigLess(a, b) == BigCmp(a, b) < 0

BigAbs(a) == [neg |-> FALSE, mag |-> a.mag]

(***************************************************************************)
(* Rationals n/d over the big integers, d > 0; not reduced.                *)
(***************************************************************************)
RatOf(n, d) == [n |-> BigOfInt(n), d |-> BigOfInt(d)]

RatOfInt(k) == RatOf(k, 1)

RatAdd(a, b) ==
    IF a.d = b.d THEN [n |-> BigAdd(a.n, b.n), d |-> a.d]
    ELSE [n |-> BigAdd(BigMul(a.n, b.d), BigMul(b.n, a.d)), d |-> BigMul(a.d, b.d)]

RatNeg(a) == [n |-> BigNeg(a.n), d |-> a.d]

RatSub(a, b) == RatAdd(a, RatNeg(b))

RatMul(a, b) == [n |-> BigMul(a.n, b.n), d |-> BigMul(a.d, b.d)]

RatAbs(a) == [n |-> BigAbs(a.n), d |-> a.d]

RatCmp(a, b) ==
    IF a.d = b.d THEN BigCmp(a.n, b.n)
    ELSE BigCmp(BigMul(a.n, b.d), BigMul(b.n, a.d))

RatLess(a, b) == RatCmp(a, b) < 0

RatIsZero(a) == a.n.mag = << >>

\* a native fraction n/d (d > 0) in lowest terms
Frac(n, d) == LET g == Gcd(Abs(n), d) IN [n |-> n \div g, d |-> d \div g]

FracToRat(f) == RatOf(f.n, f.d)

FracLess(a, b) == RatLess(FracToRat(a), FracToRat(b))

FracLeq(a, b) == ~FracLess(b, a)

(***************************************************************************)
(* SCENIC_LOOP_WAYPOINTS: (latitude, longitude) in 0.0001 degree; the      *)
(* labels are only printed.  The first and the last waypoint coincide.     *)
(***************************************************************************)
SCENIC_LOOP_WAYPOINTS ==
    << <<361588, -1154264>>,     \* Visitor Center / Entrance
       <<361450, -1154450>>,     \* Early Drive Section
       <<361300, -1154600>>,     \* Calico Hills Approach
       <<361480, -1154280>>,     \* Calico Basin / First Pullout
       <<361200, -1154700>>,     \* Central Canyon Area
       <<361000, -1154800>>,     \* Southern Canyon Area
       <<361100, -1155000>>,     \* Pine Creek Canyon
       <<361150, -1154900>>,     \* Juniper Canyon
       <<361250, -1154850>>,     \* Icebox Canyon Area
       <<361350, -1154800>>,     \* Willow Spring Area
       <<361500, -1154650>>,     \* Late Drive Section
       <<361588, -1154264>> >>   \* Return to Visitor Center

\* 180 and 90 degrees in coordinate units (math.radians takes degrees)
HalfTurn == 1800000

QuarterTurn == 900000

(***************************************************************************)
(* calculate_distance: R * 2 * atan2(sqrt(a), sqrt(1 - a)) increases with  *)
(* the haversine term a, so a distance is carried as the value of a, to    *)
(* first order around the loop (latitude 36.13 degrees, 361300 units):     *)
(*   cos(lat) ~ s * (CosIntercept - |lat|),  s = sin(36.13 deg) * pi/1.8e6 *)
(*   for two points less than a quarter turn apart in longitude,           *)
(*     4 a ~ dlat^2 + cos(lat1) cos(lat2) dlon^2                           *)
(*   and for two points near each other's antipode,                        *)
(*     4 (1 - a) ~ (lat1 + lat2)^2 + cos(lat1) cos(lat2) (|dlon| - 180)^2  *)
(* with the angles in radians.  A distance is [inf, far, v]: v is          *)
(* 4 a / s^2 when ~far and 4 (1 - a) / s^2 when far, angles in coordinate  *)
(* units, 1 / s^2 = LatWeight.  Arguments are rationals.                   *)
(***************************************************************************)
CosIntercept == 1146158

LatWeight == RatMul(RatOfInt(944282), RatOfInt(1000000))

CosLat(lat) == RatSub(RatOfInt(CosIntercept), RatAbs(lat))

HaversineTerm(lat1, lon1, lat2, lon2) ==
    LET delta_lat == RatSub(lat2, lat1)
        delta_lon == RatSub(lon2, lon1)
        far       == ~RatLess(RatAbs(delta_lon), RatOfInt(QuarterTurn))
        u == IF far THEN RatAdd(lat1, lat2) ELSE delta_lat
        w == IF far THEN RatSub(RatAbs(delta_lon), RatOfInt(HalfTurn)) ELSE delta_lon
    IN  [inf |-> FALSE,
         far |-> far,
         v   |-> RatAdd(RatMul(LatWeight, RatMul(u, u)),
                        RatMul(RatMul(CosLat(lat1), CosLat(lat2)), RatMul(w, w)))]

calculate_distance(lat1, lon1, lat2, lon2) == HaversineTerm(lat1, lon1, lat2, lon2)

\* math.sqrt(1 - a) raises ValueError when rounding leaves a above 1; the
\* exact a is 1 only for a point and its antipode
SqrtDomainAtRisk(dist) == ~dist.inf /\ dist.far /\ RatIsZero(dist.v)

DistIsZero(dist) == ~dist.inf /\ ~dist.far /\ RatIsZero(dist.v)

DistNonNeg(dist) == dist.inf \/ dist.far \/ RatCmp(dist.v, RatOfInt(0)) >= 0

\* float('inf')
Infinity == [inf |-> TRUE, far |-> TRUE, v |-> RatOfInt(0)]

DistLess(a, b) ==
    IF a.inf THEN FALSE
    ELSE IF b.inf THEN TRUE
    ELSE IF a.far # b.far THEN b.far
    ELSE IF a.far THEN RatLess(b.v, a.v)
    ELSE RatLess(a.v, b.v)

(***************************************************************************)
(* distance_to_line_segment(px, py, x1, y1, x2, y2): (distance, t)         *)
(***************************************************************************)
\* mutant: t measured from the end of the segment
Clamp01FromEnd(num, den) ==
    IF num <= 0 THEN Frac(1, 1) ELSE IF num >= den THEN Frac(0, 1) ELSE Frac(den - num, den)

Clamp01(num, den) ==
    IF num <= 0 THEN Frac(0, 1) ELSE IF num >= den THEN Frac(1, 1) ELSE Frac(num, den)

distance_to_line_segment(px, py, x1, y1, x2, y2) ==
    LET dx == x2 - x1
        dy == y2 - y1
    IN  IF dx = 0 /\ dy = 0
        THEN [distance |-> calculate_distance(RatOfInt(px), RatOfInt(py),
                                              RatOfInt(x1), RatOfInt(y1)),
              t |-> Frac(0, 1)]
        ELSE LET t == Clamp01((px - x1) * dx + (py - y1) * dy, dx * dx + dy * dy)
                 closest_x == RatAdd(RatOfInt(x1), RatMul(FracToRat(t), RatOfInt(dx)))
                 closest_y == RatAdd(RatOfInt(y1), RatMul(FracToRat(t), RatOfInt(dy)))
             IN  [distance |-> calculate_distance(RatOfInt(px), RatOfInt(py),
                                                  closest_x, closest_y),
                  t |-> t]

SegmentResult(wps, i, lat, lon) ==
    distance_to_line_segment(lat, lon, wps[i][1], wps[i][2], wps[i + 1][1], wps[i + 1][2])

(***************************************************************************)
(* One call of distance_to_line_segment in double precision.  The          *)
(* coordinates of a call are whole multiples of a unit: 0.0001 degree, or  *)
(* 1e-200 degree, so small that every product of two coordinates, and      *)
(* every haversine term of them, underflows to 0.0.                        *)
(***************************************************************************)
Units == {"1e-4", "1e-200"}

Underflows(unit) == unit = "1e-200"

\* dx * dx + dy * dy
SquaredLength(unit, dx, dy) == IF Underflows(unit) THEN 0 ELSE dx * dx + dy * dy

\* calculate_distance(px, py, x1, y1) of the zero-length branch
DistanceToStart(unit, px, py, x1, y1) ==
    IF Underflows(unit)
    THEN calculate_distance(RatOfInt(0), RatOfInt(0), RatOfInt(0), RatOfInt(0))
    ELSE calculate_distance(RatOfInt(px), RatOfInt(py), RatOfInt(x1), RatOfInt(y1))

\* the outcomes of the call: what it returns, or the exception it raises;
\* divided tells whether the division by dx * dx + dy * dy was reached
SegmentOutcomes(unit, px, py, x1, y1, x2, y2) ==
    LET dx == x2 - x1
        dy == y2 - y1
    IN  IF dx = 0 /\ dy = 0
        THEN LET dist == DistanceToStart(unit, px, py, x1, y1)
             IN  {[status |-> "ok", distance |-> dist, t |-> Frac(0, 1), divided |-> FALSE]}
                 \cup (IF SqrtDomainAtRisk(dist)
                       THEN {[status |-> "ValueError", divided |-> FALSE]} ELSE {})
        ELSE IF SquaredLength(unit, dx, dy) = 0
        THEN {[status |-> "ZeroDivisionError", divided |-> TRUE]}
        ELSE LET r == distance_to_line_segment(px, py, x1, y1, x2, y2)
             IN  {[status |-> "ok", distance |-> r.distance, t |-> r.t, divided |-> TRUE]}
                 \cup (IF SqrtDomainAtRisk(r.distance)
                       THEN {[status |-> "ValueError", divided |-> TRUE]} ELSE {})

(***************************************************************************)
(* find_closest_waypoint_on_path(lat, lon) over the waypoint table wps.    *)
(* Segments are numbered from 1 here and from 0 in the source; best.seg is *)
(* the source's closest_segment.                                           *)
(***************************************************************************)
\* mutant: <= for <, the last closest segment wins
KeepCloserOrEqual(best, i, r) ==
    IF ~DistLess(best.min_distance, r.distance)
    THEN [min_distance |-> r.distance, seg |-> i - 1, pos |-> r.t]
    ELSE best

KeepCloser(best, i, r) ==
    IF DistLess(r.distance, best.min_distance)
    THEN [min_distance |-> r.distance, seg |-> i - 1, pos |-> r.t]
    ELSE best

RECURSIVE ScanSegments(_, _, _, _, _)
ScanSegments(wps, i, lat, lon, best) ==
    IF i > Len(wps) - 1 THEN best
    ELSE ScanSegments(wps, i + 1, lat, lon,
                      KeepCloser(best, i, SegmentResult(wps, i, lat, lon)))

\* mutant: divides by the number of waypoints
PathPositionOverWaypoints(closest_segment, pos, total_segments) ==
    Frac(closest_segment * pos.d + pos.n, (total_segments + 1) * pos.d)

PathPosition(closest_segment, pos, total_segments) ==
    Frac(closest_segment * pos.d + pos.n, total_segments * pos.d)

find_closest_waypoint_on_path(wps, lat, lon) ==
    LET best == ScanSegments(wps, 1, lat, lon,
                             [min_distance |-> Infinity, seg |-> 0, pos |-> Frac(0, 1)])
        total_segments == Len(wps) - 1
    IN  [path_position |-> PathPosition(best.seg, best.pos, total_segments),
         min_distance  |-> best.min_distance]

\* some segment's distance is taken between the query and its exact antipode
MayRaiseValueError(wps, lat, lon) ==
    \E i \in 1..(Len(wps) - 1) : SqrtDomainAtRisk(SegmentResult(wps, i, lat, lon).distance)

(***************************************************************************)
(* create_area_summary_scenic.py: parse_rating, calculate_difficulty_score. *)
(* A string is a sequence of one-character strings; a rating is            *)
(* [isna |-> TRUE] (a missing cell) or [isna |-> FALSE, text |-> string].  *)
(* Grades are carried in hundredths: 5.10d parses to 10.75, carried 1075.  *)
(***************************************************************************)
Digits == <<"0", "1", "2", "3", "4", "5", "6", "7", "8", "9">>

IsDigitChar(c) == \E i \in 1..Len(Digits) : Digits[i] = c

DigitValue(c) == (CHOOSE i \in 1..Len(Digits) : Digits[i] = c) - 1

IsSpaceChar(c) == c = " "

LowerCase == <<"a", "b", "c", "d", "e", "g", "p", "r", "v", "x">>

UpperCase == <<"A", "B", "C", "D", "E", "G", "P", "R", "V", "X">>

UpperChar(c) ==
    IF \E i \in 1..Len(LowerCase) : LowerCase[i] = c
    THEN UpperCase[CHOOSE i \in 1..Len(LowerCase) : LowerCase[i] = c]
    ELSE c

\* str.upper()
Upper(s) == [i \in 1..Len(s) |-> UpperChar(s[i])]

\* str.strip()
RECURSIVE LStrip(_)
LStrip(s) == IF s # << >> /\ IsSpaceChar(Head(s)) THEN LStrip(Tail(s)) ELSE s

RECURSIVE RStrip(_)
RStrip(s) ==
    IF s # << >> /\ IsSpaceChar(s[Len(s)]) THEN RStrip(SubSeq(s, 1, Len(s) - 1)) ELSE s

Strip(s) == RStrip(LStrip(s))

\* str.startswith
StartsWith(s, prefix) == Len(s) >= Len(prefix) /\ SubSeq(s, 1, Len(prefix)) = prefix

\* the length of the first alternative of (PG13|PG|R|X|A\d|C\d) matching s, or 0
ModifierLength(s) ==
    IF StartsWith(s, <<"P", "G", "1", "3">>) THEN 4
    ELSE IF StartsWith(s, <<"P", "G">>) THEN 2
    ELSE IF StartsWith(s, <<"R">>) THEN 1
    ELSE IF StartsWith(s, <<"X">>) THEN 1
    ELSE IF Len(s) >= 2 /\ s[1] \in {"A", "C"} /\ IsDigitChar(s[2]) THEN 2
    ELSE 0

\* re.sub(r'\s+(PG13|PG|R|X|A\d|C\d)', '', rating): every leftmost match of a
\* run of white space followed by a modifier is removed
RECURSIVE RemoveModifiers(_)
RemoveModifiers(s) ==
    IF s = << >> THEN s
    ELSE IF ~IsSpaceChar(Head(s)) THEN <<Head(s)>> \o RemoveModifiers(Tail(s))
    ELSE LET rest == LStrip(s)
             m    == ModifierLength(rest)
         IN  IF m > 0 THEN RemoveModifiers(SubSeq(rest, m + 1, Len(rest)))
             ELSE SubSeq(s, 1, Len(s) - Len(rest)) \o RemoveModifiers(rest)

\* parts = rating[2:].split(); parts[0] if parts else ''
RECURSIVE TakeWord(_)
TakeWord(s) ==
    IF s = << >> \/ IsSpaceChar(Head(s)) THEN << >> ELSE <<Head(s)>> \o TakeWord(Tail(s))

FirstWord(s) == TakeWord(LStrip(s))

\* re.sub(r'[+-]', '', base_rating)
RECURSIVE RemoveSigns(_)
RemoveSigns(s) ==
    IF s = << >> THEN s
    ELSE IF Head(s) \in {"+", "-"} THEN RemoveSigns(Tail(s))
    ELSE <<Head(s)>> \o RemoveSigns(Tail(s))

\* str.isdigit()
IsDigitString(s) == s # << >> /\ \A i \in 1..Len(s) : IsDigitChar(s[i])

\* int(s) for a string of digits
RECURSIVE IntOf(_)
IntOf(s) ==
    IF s = << >> THEN 0 ELSE 10 * IntOf(SubSeq(s, 1, Len(s) - 1)) + DigitValue(s[Len(s)])

HasDot(s) == \E i \in 1..Len(s) : s[i] = "."

\* float(s) in hundredths for digits '.' digits with at most two decimals;
\* [ok |-> FALSE] stands for the ValueError of any other string with a '.'
FloatOf(s) ==
    LET dot  == CHOOSE i \in 1..Len(s) : s[i] = "." /\ \A j \in 1..(i - 1) : s[j] # "."
        int  == SubSeq(s, 1, dot - 1)
        frac == SubSeq(s, dot + 1, Len(s))
    IN  IF /\ \A i \in 1..Len(int) : IsDigitChar(int[i])
           /\ \A i \in 1..Len(frac) : IsDigitChar(frac[i])
           /\ Len(int) + Len(frac) > 0
           /\ Len(frac) <= 2
        THEN [ok |-> TRUE,
              value |-> 100 * IntOf(int)
                          + (IF Len(frac) = 1 THEN 10 * IntOf(frac) ELSE IntOf(frac))]
        ELSE [ok |-> FALSE]

\* letter_values.get(letter, 0), in hundredths
LetterValue(c) ==
    IF c = "B" THEN 25 ELSE IF c = "C" THEN 50 ELSE IF c = "D" THEN 75 ELSE 0

ParseGrade(clean_rating) ==
    IF IsDigitString(clean_rating) THEN 100 * IntOf(clean_rating)
    ELSE IF HasDot(clean_rating)
         THEN IF FloatOf(clean_rating).ok THEN FloatOf(clean_rating).value ELSE 0
    ELSE IF Len(clean_rating) >= 2
            /\ IsDigitString(SubSeq(clean_rating, 1, Len(clean_rating) - 1))
         THEN 100 * IntOf(SubSeq(clean_rating, 1, Len(clean_rating) - 1))
                + LetterValue(clean_rating[Len(clean_rating)])
    ELSE 0

parse_rating(rating_str) ==
    IF rating_str.isna \/ rating_str.text = << >> THEN 0
    ELSE LET cleaned == RemoveModifiers(Upper(Strip(rating_str.text)))
         IN  IF StartsWith(cleaned, <<"5", ".">>)
             THEN ParseGrade(RemoveSigns(FirstWord(SubSeq(cleaned, 3, Len(cleaned)))))
             ELSE 0

calculate_difficulty_score(rating_str) ==
    LET difficulty == parse_rating(rating_str)
    IN  IF difficulty = 0 THEN 0
        ELSE IF difficulty >= 700 /\ difficulty <= 1075 THEN 2
        ELSE IF difficulty < 700 THEN 1
        ELSE 0

(***************************************************************************)
(* State.                                                                  *)
(*   waypoints     the module-level waypoint table                         *)
(*   query, result one call of find_closest_waypoint_on_path               *)
(*   seg, probes   successive calls for points along one segment           *)
(*   rating, score one call of calculate_difficulty_score                  *)
(***************************************************************************)
VARIABLES waypoints, query, result, seg, probes, rating, score,
          input, pc, df, area_summary, summary, files,
          segment, point, projection

pathVars == <<query, result>>

segVars == <<seg, probes>>

ratingVars == <<rating, score>>

runVars == <<input, pc, df, area_summary, summary, files>>

projVars == <<segment, point, projection>>

vars == <<waypoints, pathVars, segVars, ratingVars, runVars, projVars>>

\* lattice step of the off-path query points, and how many steps each way
OffsetStep == 37

MaxOffset == 1

\* calls made along one segment
MaxProbes == 3

Point(lat, lon) == [lat |-> lat, lon |-> lon]

WaypointPoint(i) == Point(SCENIC_LOOP_WAYPOINTS[i][1], SCENIC_LOOP_WAYPOINTS[i][2])

NumWaypoints == Len(SCENIC_LOOP_WAYPOINTS)

\* the lattice points of segment i (from waypoint i to waypoint i + 1), by step
SegGcd(i) ==
    Gcd(Abs(SCENIC_LOOP_WAYPOINTS[i + 1][1] - SCENIC_LOOP_WAYPOINTS[i][1]),
        Abs(SCENIC_LOOP_WAYPOINTS[i + 1][2] - SCENIC_LOOP_WAYPOINTS[i][2]))

SegPoint(i, k) ==
    Point(SCENIC_LOOP_WAYPOINTS[i][1]
            + k * ((SCENIC_LOOP_WAYPOINTS[i + 1][1] - SCENIC_LOOP_WAYPOINTS[i][1]) \div SegGcd(i)),
          SCENIC_LOOP_WAYPOINTS[i][2]
            + k * ((SCENIC_LOOP_WAYPOINTS[i + 1][2] - SCENIC_LOOP_WAYPOINTS[i][2]) \div SegGcd(i)))

SegSteps(i) == {0, 1, SegGcd(i) \div 2, SegGcd(i) - 1, SegGcd(i)}

Antipode(p) == Point(-p.lat, p.lon + HalfTurn)

OnPathQueries == UNION {{SegPoint(i, k) : k \in SegSteps(i)} : i \in 1..(NumWaypoints - 1)}

OffPathQueries ==
    {Point(WaypointPoint(i).lat + a * OffsetStep, WaypointPoint(i).lon + b * OffsetStep) :
        i \in 1..NumWaypoints, a \in (-MaxOffset)..MaxOffset, b \in (-MaxOffset)..MaxOffset}

\* the antipodes of "Calico Basin / First Pullout" and "Icebox Canyon Area":
\* within 0.0000001 degree of each the double-precision haversine term
\* exceeds 1 (at (-36.1479998, 64.5719999) and at (-36.1249999, 64.5149999))
FarQueries == {Antipode(WaypointPoint(4)), Antipode(WaypointPoint(9))}

QueryPoints == OnPathQueries \cup OffPathQueries \cup FarQueries

\* the hard-coded table, each of its segments as a two-waypoint path, and a
\* two-waypoint path of zero length
WaypointTables ==
    {SCENIC_LOOP_WAYPOINTS}
    \cup {SubSeq(SCENIC_LOOP_WAYPOINTS, i, i + 1) : i \in 1..(NumWaypoints - 1)}
    \cup {<<SCENIC_LOOP_WAYPOINTS[1], SCENIC_LOOP_WAYPOINTS[NumWaypoints]>>}

NoResult == [status |-> "none"]

IdlePath == query = Point(0, 0) /\ result = NoResult

IdleSeg == seg = 0 /\ probes = << >>

IdleRating == rating = [isna |-> TRUE] /\ score = NoResult

NoFrame == [columns |-> {}, rows |-> << >>]

IdleProjection ==
    /\ segment = [unit |-> "1e-4", x1 |-> 0, y1 |-> 0, x2 |-> 0, y2 |-> 0]
    /\ point = Point(0, 0)
    /\ projection = NoResult

IdleRun ==
    /\ input = NoFrame
    /\ pc = "idle"
    /\ df = NoFrame
    /\ area_summary = << >>
    /\ summary = << >>
    /\ files = {}

(***************************************************************************)
(* One call of find_closest_waypoint_on_path on any waypoint table.        *)
(***************************************************************************)
InitPath ==
    /\ waypoints \in WaypointTables
    /\ IdlePath
    /\ IdleSeg
    /\ IdleRating
    /\ IdleRun
    /\ IdleProjection

\* the call returns (path_position, min_distance)
ProjectReturns(q) ==
    /\ result.status = "none"
    /\ query' = q
    /\ result' = [status |-> "ok",
                  value  |-> find_closest_waypoint_on_path(waypoints, q.lat, q.lon)]
    /\ UNCHANGED <<waypoints, segVars, ratingVars, runVars, projVars>>

\* the call raises ValueError out of calculate_distance
ProjectRaises(q) ==
    /\ result.status = "none"
    /\ MayRaiseValueError(waypoints, q.lat, q.lon)
    /\ query' = q
    /\ result' = [status |-> "ValueError"]
    /\ UNCHANGED <<waypoints, segVars, ratingVars, runVars, projVars>>

NextPath ==
    \E q \in QueryPoints : ProjectReturns(q) \/ ProjectRaises(q)

SpecPath == InitPath /\ [][NextPath]_vars

(***************************************************************************)
(* Calls for points taken in order along one segment of the hard-coded     *)
(* table: probes holds each point's step k along the segment and the       *)
(* progress returned for it.                                               *)
(***************************************************************************)
InitSegment ==
    /\ waypoints = SCENIC_LOOP_WAYPOINTS
    /\ IdlePath
    /\ seg \in 1..(NumWaypoints - 1)
    /\ probes = << >>
    /\ IdleRating
    /\ IdleRun
    /\ IdleProjection

ProbeSegment(k) ==
    /\ seg \in 1..(NumWaypoints - 1)
    /\ Len(probes) < MaxProbes
    /\ k \in SegSteps(seg)
    /\ Len(probes) > 0 => probes[Len(probes)].k <= k
    /\ probes' = Append(probes,
                        [k   |-> k,
                         pos |-> find_closest_waypoint_on_path(
                                     waypoints, SegPoint(seg, k).lat,
                                     SegPoint(seg, k).lon).path_position])
    /\ UNCHANGED <<waypoints, pathVars, seg, ratingVars, runVars, projVars>>

NextSegment == \E k \in SegSteps(seg) : ProbeSegment(k)

SpecSegment == InitSegment /\ [][NextSegment]_vars

(***************************************************************************)
(* One call of distance_to_line_segment: on a segment of the hard-coded    *)
(* table or a zero-length segment at one of its waypoints, for any query   *)
(* point; or with all coordinates within a few 1e-200 degree of (0, 0).    *)
(***************************************************************************)
\* the highest coordinate, in units of 1e-200 degree
MaxTiny == 1

Segment(unit, from, to) ==
    [unit |-> unit, x1 |-> from.lat, y1 |-> from.lon, x2 |-> to.lat, y2 |-> to.lon]

TinyPoints == {Point(a, b) : a, b \in 0..MaxTiny}

InitProject ==
    /\ waypoints = SCENIC_LOOP_WAYPOINTS
    /\ IdlePath
    /\ IdleSeg
    /\ IdleRating
    /\ IdleRun
    /\ projection = NoResult
    /\ \/ /\ point \in QueryPoints
          /\ \E i \in 1..NumWaypoints, j \in 1..NumWaypoints :
                 /\ j = i \/ j = i + 1
                 /\ segment = Segment("1e-4", WaypointPoint(i), WaypointPoint(j))
       \/ /\ point \in TinyPoints
          /\ \E from, to \in TinyPoints : segment = Segment("1e-200", from, to)

ProjectOntoSegment ==
    /\ projection.status = "none"
    /\ projection' \in SegmentOutcomes(segment.unit, point.lat, point.lon,
                                       segment.x1, segment.y1, segment.x2, segment.y2)
    /\ UNCHANGED <<waypoints, pathVars, segVars, ratingVars, runVars, segment, point>>

NextProject == ProjectOntoSegment

SpecProject == InitProject /\ [][NextProject]_vars

(***************************************************************************)
(* One call of calculate_difficulty_score.                                 *)
(***************************************************************************)
\* the highest N of the ratings 5.N
MaxGrade == 15

RECURSIVE DecimalString(_)
DecimalString(n) ==
    IF n < 10 THEN <<Digits[n + 1]>> ELSE DecimalString(n \div 10) \o <<Digits[(n % 10) + 1]>>

GradeSuffixes == {<< >>, <<"a">>, <<"b">>, <<"c">>, <<"d">>}

Text(s) == [isna |-> FALSE, text |-> s]

GradeRating(n, suffix) == Text(<<"5", ".">> \o DecimalString(n) \o suffix)

GradeRatings == {GradeRating(n, suffix) : n \in 0..MaxGrade, suffix \in GradeSuffixes}

\* not of the form 5.N: missing, empty, other systems, no grade after "5."
UngradedRatings ==
    {[isna |-> TRUE], Text(<< >>), Text(<<"V", "3">>), Text(<<"5">>), Text(<<"5", ".">>),
     Text(<<"5", ".", "x">>), Text(<<"5", ".", "a">>), Text(<<"4", ".", "9">>),
     Text(<<"A", "2">>), Text(<<"5", " ", "9">>), Text(<<"5", ".", " ", "R">>),
     Text(<<"5", ".", "1", ".", "2", ".", "3">>)}

\* graded, with modifiers, signs, white space or decimals
DecoratedRatings ==
    {Text(<<"5", ".", "9", " ", "P", "G", "1", "3">>), Text(<<"5", ".", "1", "0", "a", " ", "R">>),
     Text(<<"5", ".", "1", "1", "c", " ", "P", "G", "1", "3">>), Text(<<"5", ".", "7", "+">>),
     Text(<<"5", ".", "1", "0", "-">>), Text(<<" ", "5", ".", "8", " ">>),
     Text(<<"5", ".", "8", " ", "A", "0">>), Text(<<"5", ".", "6", " ", " ", "X">>),
     Text(<<"5", ".", "9", " ", "r", "x">>), Text(<<"5", ".", "1", "0", ".", "5">>),
     Text(<<"5", ".", "1", "0", "e">>), Text(<<"5", ".", "0", " ", "R">>)}

Ratings == GradeRatings \cup UngradedRatings \cup DecoratedRatings

InitRating ==
    /\ waypoints = SCENIC_LOOP_WAYPOINTS
    /\ IdlePath
    /\ IdleSeg
    /\ rating \in Ratings
    /\ score = NoResult
    /\ IdleRun
    /\ IdleProjection

ScoreRating ==
    /\ score.status = "none"
    /\ score' = [status |-> "ok", value |-> calculate_difficulty_score(rating)]
    /\ UNCHANGED <<waypoints, pathVars, segVars, rating, runVars, projVars>>

NextRating == ScoreRating

SpecRating == InitRating /\ [][NextRating]_vars

(***************************************************************************)
(* analyze_scenic_loop_path.py: load_data, analyze_scenic_loop_order and   *)
(* analyze_climbing_areas.  A cell is NaN (missing) or a value; a data     *)
(* frame is its set of column names and its rows in order, each row with   *)
(* its index label.  The rows carry Route, Location and the coordinates;   *)
(* of the other columns only the presence matters here.                    *)
(***************************************************************************)
NaN == [isna |-> TRUE]

Num(v) == [isna |-> FALSE, value |-> v]

\* str.split(' > ')
Separator == <<" ", ">", " ">>

SeparatorAt(s, i) ==
    /\ i + Len(Separator) - 1 <= Len(s)
    /\ SubSeq(s, i, i + Len(Separator) - 1) = Separator

RECURSIVE Split(_)
Split(s) ==
    IF \E i \in 1..Len(s) : SeparatorAt(s, i)
    THEN LET i == CHOOSE i \in 1..Len(s) :
                      SeparatorAt(s, i) /\ \A j \in 1..(i - 1) : ~SeparatorAt(s, j)
         IN  <<SubSeq(s, 1, i - 1)>> \o Split(SubSeq(s, i + Len(Separator), Len(s)))
    ELSE <<s>>

\* .str[k] of the split, k from 0: NaN for a missing cell and past the end
StrGet(cell, k) ==
    IF cell.isna THEN NaN
    ELSE LET parts == Split(cell.text)
         IN  IF k + 1 <= Len(parts) THEN Text(parts[k + 1]) ELSE NaN

\* the cells are held under Latitude and Longitude whichever the column names
Rename(columns) ==
    IF "Area Latitude" \in columns
    THEN {IF c = "Area Latitude" THEN "Latitude"
          ELSE IF c = "Area Longitude" THEN "Longitude" ELSE c : c \in columns}
    ELSE columns

\* the frame as read, with its RangeIndex labels and the Area and Canyon columns
WithAreaAndCanyon(rows) ==
    [i \in 1..Len(rows) |->
        [index     |-> i - 1,
         Route     |-> rows[i].Route,
         Area      |-> StrGet(rows[i].Location, 0),
         Canyon    |-> StrGet(rows[i].Location, 1),
         Latitude  |-> rows[i].Latitude,
         Longitude |-> rows[i].Longitude]]

HasCoordinates(row) == ~row.Latitude.isna /\ ~row.Longitude.isna

NonZeroCoordinates(row) == row.Latitude.value # 0 /\ row.Longitude.value # 0

load_data(table) ==
    IF "Location" \notin table.columns THEN [status |-> "KeyError"]
    ELSE LET columns == Rename(table.columns \cup {"Area", "Canyon"})
         IN  IF ~({"Latitude", "Longitude"} \subseteq columns) THEN [status |-> "KeyError"]
             ELSE [status |-> "ok",
                   df     |-> [columns |-> columns,
                               rows    |-> SelectSeq(SelectSeq(WithAreaAndCanyon(table.rows),
                                                               HasCoordinates),
                                                     NonZeroCoordinates)]]

\* the coordinates of the routes of the input tables: three pullouts
RoutePoints == {WaypointPoint(4), WaypointPoint(6), WaypointPoint(9)}

\* find_closest_waypoint_on_path on the default table, tabulated over the
\* coordinates of the routes: what it returns, and whether it can raise
Projections ==
    [p \in RoutePoints |->
        [returns |-> find_closest_waypoint_on_path(SCENIC_LOOP_WAYPOINTS, p.lat, p.lon),
         raises  |-> MayRaiseValueError(SCENIC_LOOP_WAYPOINTS, p.lat, p.lon)]]

\* the call for a row
Project(row) == Projections[Point(row.Latitude.value, row.Longitude.value)]

\* path_df: one entry per row in iteration order, labelled 0, 1, ...
path_data(rows) ==
    [j \in 1..Len(rows) |->
        [Path_Position    |-> Num(Project(rows[j]).returns.path_position),
         Distance_to_Road |-> Num(Project(rows[j]).returns.min_distance)]]

\* df[column] = path_df[column]: the values are matched on the index labels,
\* and a label that path_df does not have gets NaN
AlignOnIndex(path_df, label) ==
    IF label + 1 <= Len(path_df) THEN path_df[label + 1]
    ELSE [Path_Position |-> NaN, Distance_to_Road |-> NaN]

WithPathColumns(rows) ==
    [j \in 1..Len(rows) |-> rows[j] @@ AlignOnIndex(path_data(rows), rows[j].index)]

\* < on floats: false when either side is NaN
KeyLess(a, b) == ~a.isna /\ ~b.isna /\ FracLess(a.value, b.value)

IndexOrders(n) == {p \in [1..n -> 1..n] : \A i, j \in 1..n : i # j => p[i] # p[j]}

\* ascending, NaN last in their order; equal keys in either order, the
\* default kind 'quicksort' not being a stable sort
InSortedOrder(rows, p) ==
    \A i, j \in 1..Len(rows) :
        i < j => LET a == rows[p[i]].Path_Position
                     b == rows[p[j]].Path_Position
                 IN  /\ ~KeyLess(b, a)
                     /\ a.isna => (b.isna /\ p[i] < p[j])

\* a sort that leaves the rows as they are
sort_values_none(rows) == {rows}

\* df.sort_values('Path_Position'): the orders it can return
sort_values(rows) ==
    {[i \in 1..Len(rows) |-> rows[p[i]]] :
        p \in {q \in IndexOrders(Len(rows)) : InSortedOrder(rows, q)}}

\* df['Scenic_Loop_Order'] = range(1, len(df) + 1)
WithScenicLoopOrder(rows) ==
    [i \in 1..Len(rows) |-> rows[i] @@ [Scenic_Loop_Order |-> i]]

\* the outcomes of analyze_scenic_loop_order: KeyError for row['Route'] or,
\* on an empty frame, for path_df['Path_Position']
analyze_scenic_loop_order(frame) ==
    IF frame.rows = << >> \/ "Route" \notin frame.columns THEN {[status |-> "KeyError"]}
    ELSE {[status |-> "ok",
           df     |-> [columns |-> frame.columns
                                     \cup {"Path_Position", "Distance_to_Road", "Scenic_Loop_Order"},
                       rows    |-> WithScenicLoopOrder(sorted)]] :
              sorted \in sort_values(WithPathColumns(frame.rows))}
         \cup (IF \E j \in 1..Len(frame.rows) : Project(frame.rows[j]).raises
               THEN {[status |-> "ValueError"]} ELSE {})

\* f"{value}" of a label: a missing one prints as nan
Format(cell) == IF cell.isna THEN <<"n", "a", "n">> ELSE cell.text

\* area_key = f"{row['Area']} ({row['Canyon']})"
area_key(row) == Format(row.Area) \o <<" ", "(">> \o Format(row.Canyon) \o <<")">>

\* the keys of area_data, in the order of their first row
RECURSIVE area_keys(_)
area_keys(rows) ==
    IF rows = << >> THEN << >>
    ELSE LET before == area_keys(SubSeq(rows, 1, Len(rows) - 1))
             key    == area_key(rows[Len(rows)])
         IN  IF \E i \in 1..Len(before) : before[i] = key THEN before ELSE Append(before, key)

FracAdd(a, b) == Frac(a.n * b.d + b.n * a.d, a.d * b.d)

RECURSIVE SumCells(_)
SumCells(cells) ==
    IF cells = << >> THEN Frac(0, 1)
    ELSE FracAdd(SumCells(SubSeq(cells, 1, Len(cells) - 1)), cells[Len(cells)].value)

\* np.mean of a non-empty list: NaN if any entry is NaN
Mean(cells) ==
    IF \E i \in 1..Len(cells) : cells[i].isna THEN NaN
    ELSE LET total == SumCells(cells) IN Num(Frac(total.n, total.d * Len(cells)))

RoutesOfArea(rows, key) == SelectSeq(rows, LAMBDA row : area_key(row) = key)

AreaAggregate(rows, key) ==
    LET routes == RoutesOfArea(rows, key)
    IN  [area          |-> key,
         route_count   |-> Len(routes),
         path_position |-> Mean([i \in 1..Len(routes) |-> routes[i].Path_Position]),
         routes        |-> [i \in 1..Len(routes) |-> routes[i].Route]]

\* list.sort(key=...): the leading run (reversed if strictly descending),
\* then binary insertion of the rest; the keys are compared with < only
AreaLess(x, y) == KeyLess(x.path_position, y.path_position)

RECURSIVE RunEnd(_, _, _)
RunEnd(a, i, descending) ==
    IF i <= Len(a) /\ AreaLess(a[i], a[i - 1]) = descending
    THEN RunEnd(a, i + 1, descending) ELSE i

Reverse(a) == [i \in 1..Len(a) |-> a[Len(a) + 1 - i]]

RECURSIVE InsertionPoint(_, _, _, _)
InsertionPoint(a, x, l, r) ==
    IF l < r
    THEN LET p == (l + r) \div 2
         IN  IF AreaLess(x, a[p + 1]) THEN InsertionPoint(a, x, l, p)
             ELSE InsertionPoint(a, x, p + 1, r)
    ELSE l

RECURSIVE BinarySort(_, _)
BinarySort(a, start) ==
    IF start > Len(a) THEN a
    ELSE LET l == InsertionPoint(a, a[start], 0, start - 1)
         IN  BinarySort(SubSeq(a, 1, l) \o <<a[start]>> \o SubSeq(a, l + 1, start - 1)
                            \o SubSeq(a, start + 1, Len(a)),
                        start + 1)

ListSort(a) ==
    IF Len(a) < 2 THEN a
    ELSE LET descending == AreaLess(a[2], a[1])
             end        == RunEnd(a, 3, descending)
             run        == SubSeq(a, 1, end - 1)
         IN  BinarySort((IF descending THEN Reverse(run) ELSE run) \o SubSeq(a, end, Len(a)),
                        end)

analyze_climbing_areas(frame) ==
    LET keys == area_keys(frame.rows)
    IN  ListSort([i \in 1..Len(keys) |-> AreaAggregate(frame.rows, keys[i])])

(***************************************************************************)
(* create_area_summary_scenic.py: create_area_summary_scenic, as far as    *)
(* the grouping goes: the rows of each (Area, Canyon), their count and     *)
(* their first Scenic_Loop_Order.                                          *)
(***************************************************************************)
\* strings that read_csv takes for a missing value, among them the empty
\* cell that to_csv writes for NaN
NaStrings ==
    {<< >>, <<"n", "a", "n">>, <<"N", "a", "N">>, <<"N", "A">>, <<"N", "/", "A">>,
     <<"n", "/", "a">>, <<"N", "U", "L", "L">>, <<"n", "u", "l", "l">>,
     <<"N", "o", "n", "e">>}

\* a label written by to_csv and read back by read_csv
ReadCsvLabel(cell) == IF cell.isna \/ cell.text \in NaStrings THEN NaN ELSE cell

\* the enriched file read back: it was written without the index
read_csv(file) ==
    [columns |-> file.columns,
     rows    |-> [i \in 1..Len(file.rows) |->
                     [file.rows[i] EXCEPT !.index  = i - 1,
                                          !.Area   = ReadCsvLabel(@),
                                          !.Canyon = ReadCsvLabel(@)]]]

\* the columns create_area_summary_scenic reads first, in that order
ScoredColumns == <<"Rating", "Route Type", "Pitches", "Avg Stars">>

\* groupby(['Area', 'Canyon']) leaves out the rows with a NaN key
GroupKeys(rows) ==
    {<<rows[i].Area, rows[i].Canyon>> :
        i \in {j \in 1..Len(rows) : ~rows[j].Area.isna /\ ~rows[j].Canyon.isna}}

GroupRows(rows, key) ==
    SelectSeq(rows, LAMBDA row : row.Area = key[1] /\ row.Canyon = key[2])

RECURSIVE MinOrder(_)
MinOrder(rows) ==
    IF Len(rows) = 1 THEN rows[1].Scenic_Loop_Order
    ELSE LET rest == MinOrder(Tail(rows))
         IN  IF rows[1].Scenic_Loop_Order < rest THEN rows[1].Scenic_Loop_Order ELSE rest

AreaRow(rows, key) ==
    [Area               |-> key[1],
     Canyon             |-> key[2],
     num_routes         |-> Len(GroupRows(rows, key)),
     first_scenic_order |-> MinOrder(GroupRows(rows, key))]

\* sort_values('first_scenic_order'): no two groups have the same
RECURSIVE SortByFirstOrder(_)
SortByFirstOrder(areas) ==
    IF areas = {} THEN << >>
    ELSE LET first == CHOOSE a \in areas :
                          \A b \in areas : a.first_scenic_order <= b.first_scenic_order
         IN  <<first>> \o SortByFirstOrder(areas \ {first})

create_area_summary_scenic(file) ==
    LET frame == read_csv(file)
    IN  IF \E i \in 1..Len(ScoredColumns) : ScoredColumns[i] \notin frame.columns
        THEN [status |-> "KeyError"]
        ELSE [status  |-> "ok",
              summary |-> SortByFirstOrder({AreaRow(frame.rows, key) : key \in GroupKeys(frame.rows)})]

(***************************************************************************)
(* One run of both stages over an input table: main of                     *)
(* analyze_scenic_loop_path.py, then main of create_area_summary_scenic.py.*)
(***************************************************************************)
\* rows of the tables that have every column, and of those that do not
MaxRows == 3

MaxRowsOtherColumns == 1

AllColumns ==
    {"Route", "Location", "Latitude", "Longitude", "Rating", "Route Type", "Pitches", "Avg Stars"}

ColumnSets ==
    {AllColumns}
    \cup {AllColumns \ {c} : c \in AllColumns}
    \cup {(AllColumns \ {"Latitude", "Longitude"}) \cup {"Area Latitude", "Area Longitude"}}

\* "A > B (C", "A (B > C" and "A"
Locations ==
    {Text(<<"A", " ", ">", " ", "B", " ", "(", "C">>),
     Text(<<"A", " ", "(", "B", " ", ">", " ", "C">>),
     Text(<<"A">>)}

\* routes at the pullouts, a route without latitude, a route at longitude 0
Coordinates ==
    {[Latitude |-> Num(p.lat), Longitude |-> Num(p.lon)] : p \in RoutePoints}
    \cup {[Latitude |-> NaN, Longitude |-> Num(WaypointPoint(4).lon)],
          [Latitude |-> Num(WaypointPoint(4).lat), Longitude |-> Num(0)]}

\* route i of the table has the location and the coordinates of cells[i]
InputTable(columns, cells) ==
    [columns |-> columns,
     rows    |-> [i \in DOMAIN cells |-> [Route     |-> i,
                                          Location  |-> cells[i][1],
                                          Latitude  |-> cells[i][2].Latitude,
                                          Longitude |-> cells[i][2].Longitude]]]

ReportFile == "scenic_loop_order_detailed.txt"

RoutesFile == "red_rocks_routes_with_scenic_order.csv"

SummaryFile == "red_rocks_area_summary_scenic_loop.csv"

InitRun ==
    /\ waypoints = SCENIC_LOOP_WAYPOINTS
    /\ IdlePath
    /\ IdleSeg
    /\ IdleRating
    /\ \E columns \in ColumnSets, n \in 0..MaxRows :
           /\ columns = AllColumns \/ n <= MaxRowsOtherColumns
           /\ \E cells \in [1..n -> Locations \X Coordinates] :
                  input = InputTable(columns, cells)
    /\ pc = "start"
    /\ df = NoFrame
    /\ area_summary = << >>
    /\ summary = << >>
    /\ files = {}
    /\ IdleProjection

\* df = load_data('red_rocks_routes.csv')
LoadData ==
    /\ pc = "start"
    /\ LET loaded == load_data(input)
       IN  IF loaded.status = "ok"
           THEN df' = loaded.df /\ pc' = "loaded"
           ELSE df' = df /\ pc' = "failed"
    /\ UNCHANGED <<waypoints, pathVars, segVars, ratingVars, input, area_summary, summary, files,
                   projVars>>

\* df = analyze_scenic_loop_order(df)
AnalyzeScenicLoopOrder ==
    /\ pc = "loaded"
    /\ \E ordered \in analyze_scenic_loop_order(df) :
           IF ordered.status = "ok"
           THEN df' = ordered.df /\ pc' = "ordered"
           ELSE df' = df /\ pc' = "failed"
    /\ UNCHANGED <<waypoints, pathVars, segVars, ratingVars, input, area_summary, summary, files,
                   projVars>>

\* area_summary = analyze_climbing_areas(df), and print_results
AnalyzeClimbingAreas ==
    /\ pc = "ordered"
    /\ area_summary' = analyze_climbing_areas(df)
    /\ pc' = "grouped"
    /\ UNCHANGED <<waypoints, pathVars, segVars, ratingVars, input, df, summary, files,
                   projVars>>

\* save_detailed_results(area_summary)
SaveDetailedResults ==
    /\ pc = "grouped"
    /\ files' = files \cup {ReportFile}
    /\ pc' = "reported"
    /\ UNCHANGED <<waypoints, pathVars, segVars, ratingVars, input, df, area_summary, summary,
                   projVars>>

\* create_csv_with_scenic_order(df), and the closing prints of the first
\* stage: area_summary has an entry, df having a row
CreateCsvWithScenicOrder ==
    /\ pc = "reported"
    /\ files' = files \cup {RoutesFile}
    /\ pc' = "enriched"
    /\ UNCHANGED <<waypoints, pathVars, segVars, ratingVars, input, df, area_summary, summary,
                   projVars>>

\* main of the second stage: it reads the enriched file, writes the summary
\* and prints its first and last row.  Without any group it fails, at the
\* latest on summary_df.iloc[0], after the write.
CreateAreaSummaryScenic ==
    /\ pc = "enriched"
    /\ LET made == create_area_summary_scenic(df)
       IN  IF made.status # "ok"
           THEN summary' = summary /\ files' = files /\ pc' = "failed"
           ELSE /\ summary' = made.summary
                /\ IF made.summary = << >>
                   THEN pc' = "failed" /\ files' \in {files, files \cup {SummaryFile}}
                   ELSE pc' = "summarised" /\ files' = files \cup {SummaryFile}
    /\ UNCHANGED <<waypoints, pathVars, segVars, ratingVars, input, df, area_summary,
                   projVars>>

NextRun ==
    \/ LoadData
    \/ AnalyzeScenicLoopOrder
    \/ AnalyzeClimbingAreas
    \/ SaveDetailedResults
    \/ CreateCsvWithScenicOrder
    \/ CreateAreaSummaryScenic

SpecRun == InitRun /\ [][NextRun]_vars

(***************************************************************************)
(* Properties of the path projection.                                      *)
(***************************************************************************)
Returned == result.status = "ok"

OnHardCodedTable == waypoints = SCENIC_LOOP_WAYPOINTS

\* C1 as stated: on the hard-coded table, a query equal to waypoint i
\* (counted from 0, for every i up to and including the last, W - 1) returns
\* progress i / (W - 1) and distance 0.
C1_EveryWaypointIndex ==
    (Returned /\ OnHardCodedTable) =>
        \A i \in 1..NumWaypoints :
            query = WaypointPoint(i) =>
                /\ result.value.path_position = Frac(i - 1, NumWaypoints - 1)
                /\ DistIsZero(result.value.min_distance)

\* C1 amended: a query equal to waypoint i returns progress i / (W - 1) and
\* distance 0 for every i below W - 1; for the last waypoint, whose coordinate
\* is that of waypoint 0, it returns progress 0 and distance 0.
C1_WaypointProgress ==
    (Returned /\ OnHardCodedTable) =>
        /\ \A i \in 1..(NumWaypoints - 1) :
               query = WaypointPoint(i) =>
                   /\ result.value.path_position = Frac(i - 1, NumWaypoints - 1)
                   /\ DistIsZero(result.value.min_distance)
        /\ query = WaypointPoint(NumWaypoints) =>
               /\ result.value.path_position = Frac(0, 1)
               /\ DistIsZero(result.value.min_distance)

C1_Witness ==
    /\ Returned
    /\ OnHardCodedTable
    /\ query = WaypointPoint(NumWaypoints)
    /\ result.value.path_position = Frac(0, 1)

\* C5 as stated: for any finite query and any table of at least two
\* waypoints the call returns a progress in [0, 1] and a distance >= 0.
C5_AlwaysReturnsInRange ==
    result.status # "none" =>
        /\ Returned
        /\ FracLeq(Frac(0, 1), result.value.path_position)
        /\ FracLeq(result.value.path_position, Frac(1, 1))
        /\ DistNonNeg(result.value.min_distance)

\* C10: the returned distance is the minimum of the segments' distances, and
\* the returned progress is (i + t) / (W - 1) for the lowest segment index i
\* (counted from 0) attaining that minimum and that segment's local t.
AttainsMinimum(i) ==
    \A j \in 1..(Len(waypoints) - 1) :
        ~DistLess(SegmentResult(waypoints, j, query.lat, query.lon).distance,
                  SegmentResult(waypoints, i, query.lat, query.lon).distance)

LowestMinimalSegment ==
    CHOOSE i \in 1..(Len(waypoints) - 1) :
        AttainsMinimum(i) /\ \A j \in 1..(i - 1) : ~AttainsMinimum(j)

C10_LowestClosestSegment ==
    Returned =>
        LET i == LowestMinimalSegment
            r == SegmentResult(waypoints, i, query.lat, query.lon)
        IN  /\ result.value.min_distance = r.distance
            /\ result.value.path_position =
                   Frac((i - 1) * r.t.d + r.t.n, (Len(waypoints) - 1) * r.t.d)

\* two segments that are not neighbours are both closest, and the earlier wins
C10_Witness ==
    /\ Returned
    /\ \E i, j \in 1..(Len(waypoints) - 1) :
           /\ i + 1 < j
           /\ AttainsMinimum(i)
           /\ AttainsMinimum(j)
           /\ LowestMinimalSegment = i
           /\ result.value.path_position = Frac(i - 1, Len(waypoints) - 1)

\* C7 as stated: the progress values of points taken in order along a
\* segment of the hard-coded table (endpoints allowed, the last segment
\* included) are non-decreasing.
C7_MonotoneAlongSegment ==
    \A a, b \in 1..Len(probes) :
        a < b => FracLeq(probes[a].pos, probes[b].pos)

\* C7 amended: they are non-decreasing for points other than the end waypoint
\* of the last segment; that waypoint, which coincides with waypoint 0, gets
\* progress 0.
IsFinalWaypoint(k) == seg = NumWaypoints - 1 /\ k = SegGcd(seg)

C7_MonotoneExceptFinalWaypoint ==
    /\ \A a, b \in 1..Len(probes) :
           (a < b /\ ~IsFinalWaypoint(probes[a].k) /\ ~IsFinalWaypoint(probes[b].k))
               => FracLeq(probes[a].pos, probes[b].pos)
    /\ \A a \in 1..Len(probes) :
           IsFinalWaypoint(probes[a].k) => probes[a].pos = Frac(0, 1)

C7_Witness ==
    /\ seg = NumWaypoints - 1
    /\ Len(probes) = 3
    /\ probes[1].k < probes[2].k
    /\ probes[2].k < probes[3].k
    /\ FracLess(probes[1].pos, probes[2].pos)
    /\ IsFinalWaypoint(probes[3].k)

(***************************************************************************)
(* Properties of the segment projection.                                   *)
(***************************************************************************)
Called == projection.status # "none"

ZeroLength == segment.x1 = segment.x2 /\ segment.y1 = segment.y2

\* C11 as stated: on a segment whose start and end are identical the call
\* returns t = 0 with the distance from the point to the segment start and
\* does not reach the division by the squared segment length; on every other
\* segment it returns a t in [0, 1].
C11_ZeroLengthSafeAndInRange ==
    Called =>
        /\ projection.status = "ok"
        /\ IF ZeroLength
           THEN /\ projection.t = Frac(0, 1)
                /\ projection.distance = DistanceToStart(segment.unit, point.lat, point.lon,
                                                         segment.x1, segment.y1)
                /\ ~projection.divided
           ELSE /\ FracLeq(Frac(0, 1), projection.t)
                /\ FracLeq(projection.t, Frac(1, 1))

(***************************************************************************)
(* Properties of a run of both stages.                                     *)
(***************************************************************************)
\* analyze_scenic_loop_order has returned
HasOrder == "Scenic_Loop_Order" \in df.columns

Routes == 1..Len(df.rows)

\* C2 as stated: after load_data and analyze_scenic_loop_order every
\* surviving route carries the Path_Position and the Distance_to_Road that
\* find_closest_waypoint_on_path returns for its own coordinates, also when
\* earlier rows of the table were dropped.
C2_PathColumnsOfOwnCoordinates ==
    HasOrder =>
        \A a \in Routes :
            /\ df.rows[a].Path_Position = Num(Project(df.rows[a]).returns.path_position)
            /\ df.rows[a].Distance_to_Road = Num(Project(df.rows[a]).returns.min_distance)

\* the progress values of the surviving routes are pairwise distinct
DistinctProgress ==
    \A a, b \in Routes :
        a # b => Project(df.rows[a]).returns.path_position
                     # Project(df.rows[b]).returns.path_position

\* C3 as stated: for N routes with pairwise distinct progress the
\* Scenic_Loop_Order values are exactly 1..N, and one route is ranked before
\* another if and only if its Path_Position is the lower.
C3_RanksFollowPathPosition ==
    (HasOrder /\ DistinctProgress) =>
        /\ {df.rows[a].Scenic_Loop_Order : a \in Routes} = 1..Len(df.rows)
        /\ \A a, b \in Routes :
               (df.rows[a].Scenic_Loop_Order < df.rows[b].Scenic_Loop_Order)
                   <=> KeyLess(df.rows[a].Path_Position, df.rows[b].Path_Position)

\* two routes with the same Path_Position
Tied(a, b) ==
    /\ a # b
    /\ ~df.rows[a].Path_Position.isna
    /\ df.rows[a].Path_Position = df.rows[b].Path_Position

\* C4 as stated: routes with equal Path_Position are ranked in their input
\* order (the index labels are the input positions).
C4_TiesInInputOrder ==
    HasOrder =>
        \A a, b \in Routes :
            (Tied(a, b) /\ df.rows[a].index < df.rows[b].index)
                => df.rows[a].Scenic_Loop_Order < df.rows[b].Scenic_Loop_Order

\* C4 amended: routes with equal Path_Position get different ranks that are
\* consecutive, every route ranked between two of them having the same
\* Path_Position; which of them comes first is not fixed by the input order.
C4_TiesTakeConsecutiveRanks ==
    HasOrder =>
        \A a, b \in Routes :
            Tied(a, b) =>
                /\ df.rows[a].Scenic_Loop_Order # df.rows[b].Scenic_Loop_Order
                /\ \A c \in Routes :
                       (/\ df.rows[a].Scenic_Loop_Order < df.rows[c].Scenic_Loop_Order
                        /\ df.rows[c].Scenic_Loop_Order < df.rows[b].Scenic_Loop_Order)
                           => df.rows[c].Path_Position = df.rows[a].Path_Position

\* three routes, two of them tied and ranked against their input order, the
\* third with another Path_Position
C4_Witness ==
    /\ HasOrder
    /\ \E a, b, c \in Routes :
           /\ Tied(a, b)
           /\ df.rows[a].index < df.rows[b].index
           /\ df.rows[b].Scenic_Loop_Order < df.rows[a].Scenic_Loop_Order
           /\ ~df.rows[c].Path_Position.isna
           /\ df.rows[c].Path_Position # df.rows[a].Path_Position

\* a required column is missing from the input table
MissingColumn == ~(AllColumns \subseteq Rename(input.columns))

\* C6 as stated: with a required column missing the run over both stages
\* fails, and at the failure none of the three files has been written.
C6_NoOutputOnMissingColumn ==
    MissingColumn =>
        /\ pc # "summarised"
        /\ pc = "failed" => files = {}

\* analyze_climbing_areas has returned
Grouped == area_summary # << >>

AreaPairs == {<<df.rows[a].Area, df.rows[a].Canyon>> : a \in Routes}

RoutesOfPair(pair) ==
    SelectSeq(df.rows, LAMBDA row : row.Area = pair[1] /\ row.Canyon = pair[2])

\* C9 as stated: one aggregate per distinct (Area, Canyon) pair of the
\* routes, holding exactly the routes of that pair, their number as
\* route_count and the mean of their Path_Position as path_position; the
\* aggregates are in ascending order of that mean.
C9_OneAggregatePerPair ==
    Grouped =>
        /\ Len(area_summary) = Cardinality(AreaPairs)
        /\ \A pair \in AreaPairs :
               \E k \in 1..Len(area_summary) :
                   LET routes == RoutesOfPair(pair)
                   IN  /\ area_summary[k].routes = [i \in 1..Len(routes) |-> routes[i].Route]
                       /\ area_summary[k].route_count = Len(routes)
                       /\ area_summary[k].path_position =
                              Mean([i \in 1..Len(routes) |-> routes[i].Path_Position])
        /\ \A j, k \in 1..Len(area_summary) :
               j < k => ~AreaLess(area_summary[k], area_summary[j])

\* create_area_summary_scenic has returned a table with at least one row
Summarised == pc = "summarised"

RECURSIVE TotalRoutes(_)
TotalRoutes(areas) ==
    IF areas = << >> THEN 0 ELSE areas[1].num_routes + TotalRoutes(Tail(areas))

\* C12 as stated: in the table of create_area_summary_scenic every route row
\* of the file it reads is counted in exactly one area row, the num_routes
\* summing to the number of route rows also when a Canyon or Area label is
\* missing; the first_scenic_order values of the area rows are pairwise
\* distinct and strictly ascending.
C12_EveryRouteCountedOnce ==
    Summarised =>
        /\ TotalRoutes(summary) = Len(df.rows)
        /\ \A j, k \in 1..Len(summary) :
               j < k => summary[j].first_scenic_order < summary[k].first_scenic_order

(***************************************************************************)
(* Properties of the difficulty score.                                     *)
(***************************************************************************)
\* C8 as stated: a rating 5.N with an optional a/b/c/d suffix scores 1 for
\* every N from 0 to 6, 2 for N from 7 to 10 (5.7 to 5.10d) and 0 above; a
\* rating that is unparseable or does not start with "5." scores 0.
C8_ScoreByGrade ==
    score.status = "ok" =>
        /\ \A n \in 0..MaxGrade, suffix \in GradeSuffixes :
               rating = GradeRating(n, suffix) =>
                   score.value = (IF n <= 6 THEN 1 ELSE IF n <= 10 THEN 2 ELSE 0)
        /\ rating \in UngradedRatings => score.value = 0

====
